---------------------------- MODULE Spec2Model ----------------------------
(***************************************************************************)
(* A model of hold_csv_parser.py: parse_csv_files scans the Main Line      *)
(* (horizontal) grid and then the Aux (vertical) grid into hold_data,      *)
(* fills in the missing kicker rows, and generate_openscad_code renders    *)
(* the table as the two arrays angle_data and hold_numbers.                *)
(*                                                                         *)
(* A text is a sequence of one-character strings, a CSV row a sequence of  *)
(* texts and a CSV file a sequence of rows.  Python indexes from 0 and     *)
(* TLA+ from 1: Cell and RowAt take the Python index.                      *)
(***************************************************************************)
EXTENDS Integers, Sequences, FiniteSets, TLC

(***************************************************************************)
(* Bounds of the checked inputs.                                           *)
(***************************************************************************)
\* longest file of the free-form input family
MaxRows == 3
\* most rows placed above the header pair in the lookback input family
MaxAbove == 5
\* most header pairs of a file of the row-order input family
MaxPairs == 3

(***************************************************************************)
(* Text primitives (str methods, re.search, int, f-strings).               *)
(***************************************************************************)
Digits == <<"0", "1", "2", "3", "4", "5", "6", "7", "8", "9">>

\* the characters of the modelled texts in code point order
CharOrder == <<" ", "#", "+", "-", "0", "1", "2", "3", "4", "5", "6", "7",
               "8", "9", "A", "B", "C", "H", "K", "R", "_", "a", "b", "c",
               "d", "e", "g", "i", "k", "l", "n", "o", "r", "w", "x", "˚">>

Ord(c) == CHOOSE n \in 1..Len(CharOrder) : CharOrder[n] = c

IsDigit(c) == \E n \in 1..10 : Digits[n] = c

DigitVal(c) == (CHOOSE n \in 1..10 : Digits[n] = c) - 1

Cell(row, k) == row[k + 1]

RowAt(rows, k) == rows[k + 1]

RECURSIVE LStrip(_)
LStrip(s) == IF s # <<>> /\ Head(s) = " " THEN LStrip(Tail(s)) ELSE s

RECURSIVE RStrip(_)
RStrip(s) ==
    IF s # <<>> /\ s[Len(s)] = " " THEN RStrip(SubSeq(s, 1, Len(s) - 1)) ELSE s

Strip(s) == RStrip(LStrip(s))

StartsWith(s, p) == Len(s) >= Len(p) /\ SubSeq(s, 1, Len(p)) = p

\* the longest run of digits at the start of s
RECURSIVE DigitPrefix(_)
DigitPrefix(s) ==
    IF s # <<>> /\ IsDigit(Head(s)) THEN <<Head(s)>> \o DigitPrefix(Tail(s))
    ELSE <<>>

\* group 1 of re.search(r'(\d+)', s); the empty text when there is no match
RECURSIVE DigitRun(_)
DigitRun(s) ==
    IF s = <<>> THEN <<>>
    ELSE IF IsDigit(Head(s)) THEN DigitPrefix(s)
    ELSE DigitRun(Tail(s))

\* group 1 of re.search(r'C-(\d+)', s); the empty text when there is no match
RECURSIVE ColMatch(_)
ColMatch(s) ==
    IF Len(s) < 3 THEN <<>>
    ELSE IF s[1] = "C" /\ s[2] = "-" /\ IsDigit(s[3])
         THEN DigitPrefix(SubSeq(s, 3, Len(s)))
         ELSE ColMatch(Tail(s))

\* int() of a run of decimal digits
RECURSIVE DecValue(_)
DecValue(ds) ==
    IF ds = <<>> THEN 0
    ELSE 10 * DecValue(SubSeq(ds, 1, Len(ds) - 1)) + DigitVal(ds[Len(ds)])

\* str() of a natural number, as an f-string renders it
RECURSIVE IntToStr(_)
IntToStr(n) ==
    IF n < 10 THEN <<Digits[n + 1]>>
    ELSE IntToStr(n \div 10) \o <<Digits[(n % 10) + 1]>>

\* s.replace("K-", "K")
RECURSIVE ReplaceKDash(_)
ReplaceKDash(s) ==
    IF Len(s) < 2 THEN s
    ELSE IF s[1] = "K" /\ s[2] = "-"
         THEN <<"K">> \o ReplaceKDash(SubSeq(s, 3, Len(s)))
         ELSE <<s[1]>> \o ReplaceKDash(Tail(s))

\* the text of s before its first "-" (all of s when it has none)
RECURSIVE UptoDash(_)
UptoDash(s) ==
    IF s = <<>> \/ Head(s) = "-" THEN <<>>
    ELSE <<Head(s)>> \o UptoDash(Tail(s))

\* s.split('-')[1] for a text s that holds a "-"
SplitDash1(s) ==
    UptoDash(SubSeq(s, Len(UptoDash(s)) + 2, Len(s)))

\* int(s) as row_sort_key uses it: surrounding blanks and one sign are
\* allowed, then digits only; ok is FALSE where Python raises ValueError
PyInt(s) ==
    LET t == Strip(s)
        signed == t # <<>> /\ Head(t) \in {"+", "-"}
        body == IF signed THEN Tail(t) ELSE t
        good == body # <<>> /\ \A n \in 1..Len(body) :
                       IsDigit(body[n])
                       \/ (body[n] = "_" /\ n > 1 /\ n < Len(body)
                           /\ IsDigit(body[n - 1]) /\ IsDigit(body[n + 1]))
        digs == SelectSeq(body, IsDigit)
    IN  IF ~good THEN [ok |-> FALSE, val |-> 0]
        ELSE [ok |-> TRUE,
              val |-> IF signed /\ Head(t) = "-" THEN 0 - DecValue(digs)
                      ELSE DecValue(digs)]

\* s < t for Python str
RECURSIVE StrLess(_, _)
StrLess(s, t) ==
    IF t = <<>> THEN FALSE
    ELSE IF s = <<>> THEN TRUE
    ELSE IF Head(s) = Head(t) THEN StrLess(Tail(s), Tail(t))
    ELSE Ord(Head(s)) < Ord(Head(t))

(***************************************************************************)
(* Literal marker texts and layout constants of the two grids.             *)
(***************************************************************************)
KickboardBelow ==
    <<"K", "i", "c", "k", "b", "o", "a", "r", "d", " ", "B", "e", "l", "o", "w">>

HoldMarker == <<"H", "o", "l", "d", " ", "#">>

AngleMarker == <<"A", "n", "g", "l", "e">>

\* the default filler's two kicker rows
K1 == <<"K", "1">>

K2 == <<"K", "2">>

\* Main Line grid: rows under 14 cells are skipped, the ROW column is cell
\* 14 and the data cells are range(1, 14)
MainlineMinLen == 14

MainlineRowCol == 14

MainlineLastCell == 13

\* Aux grid: rows under 15 cells are skipped, the ROW column is cell 15 and
\* the data cells are range(1, 15)
AuxMinLen == 15

AuxRowCol == 15

AuxLastCell == 14

\* the last column of range(2, 28, 2) and range(1, 28, 2) is below 28
KickerColStop == 28

(***************************************************************************)
(* hold_data: a function from column number to that column's dict, a       *)
(* sequence of [row, angles, hold_number] in insertion order.              *)
(***************************************************************************)
HasRow(d, row) == \E n \in 1..Len(d) : d[n].row = row

RowIndex(d, row) == CHOOSE n \in 1..Len(d) : d[n].row = row

\* d[row] = entry: an existing key keeps its place, a new key goes last
PutRow(d, entry) ==
    IF HasRow(d, entry.row) THEN [d EXCEPT ![RowIndex(d, entry.row)] = entry]
    ELSE Append(d, entry)

ColDict(hd, col) == IF col \in DOMAIN hd THEN hd[col] ELSE <<>>

HasKey(hd, col, row) == col \in DOMAIN hd /\ HasRow(hd[col], row)

Entry(hd, col, row) == hd[col][RowIndex(hd[col], row)]

\* hold_data[col][entry.row] = entry, creating hold_data[col] when missing
SetEntry(hd, col, entry) ==
    [c \in DOMAIN hd \cup {col} |->
        IF c = col THEN PutRow(ColDict(hd, col), entry) ELSE hd[c]]

Keys(hd) ==
    UNION {{<<c, hd[c][n].row>> : n \in 1..Len(hd[c])} : c \in DOMAIN hd}

SynthLabelBare(col, row) == <<"C">> \o IntToStr(col) \o <<"R">> \o row

\* f"C{col_num}_R{row_num}"
SynthLabel(col, row) == <<"C">> \o IntToStr(col) \o <<"_", "R">> \o row

(***************************************************************************)
(* Scanner helpers shared by the two scans.                                *)
(***************************************************************************)
Max(a, b) == IF a >= b THEN a ELSE b

\* the ROW column: "R-..." is kept whole, "K-..." loses its hyphen, anything
\* else leaves row_id as it was
RowIdAfter(row, rid, rowCol) ==
    IF Len(row) > rowCol /\ Cell(row, rowCol) # <<>>
       /\ StartsWith(Strip(Cell(row, rowCol)), <<"R", "-">>)
    THEN Strip(Cell(row, rowCol))
    ELSE IF Len(row) > rowCol /\ Cell(row, rowCol) # <<>>
            /\ StartsWith(Strip(Cell(row, rowCol)), <<"K", "-">>)
         THEN ReplaceKDash(Strip(Cell(row, rowCol)))
         ELSE rid

\* i + 1 < len(rows) and len(rows[i+1]) > 0
HasNextRow(rows, i) == i + 1 < Len(rows) /\ Len(RowAt(rows, i + 1)) > 0

\* angle_row[0].strip() == "Angle"
NextIsAngle(rows, i) == Strip(Cell(RowAt(rows, i + 1), 0)) = AngleMarker

\* the exclusive lower end of range(i-1, max(0, i-5), -1)
LookbackStop(i) == Max(0, i - 5)

\* col_name: the first cell j of rows k, k-1, ..., stop+1 holding "C-<n>"
RECURSIVE ColName(_, _, _, _)
ColName(rows, j, k, stop) ==
    IF k <= stop THEN <<>>
    ELSE IF k < Len(rows) /\ j < Len(RowAt(rows, k))
            /\ Cell(RowAt(rows, k), j) # <<>>
            /\ ColMatch(Strip(Cell(RowAt(rows, k), j))) # <<>>
         THEN Strip(Cell(RowAt(rows, k), j))
         ELSE ColName(rows, j, k - 1, stop)

MainlinePosColOff(j) == 2 + j * 2

\* the position formula of the Main Line grid (even columns)
MainlinePosCol(j) == 2 + (j - 1) * 2

\* the position formula of the Aux grid (odd columns)
AuxPosCol(j) == 1 + (j - 1) * 2

\* col_num of a regular header pair; 0 stands for None (both are falsy)
ColNum(rows, i, j, lastCell, pos) ==
    LET col_name == ColName(rows, j, i - 1, LookbackStop(i))
        col_match == IF col_name # <<>> THEN ColMatch(col_name) ELSE <<>>
    IN  IF col_match = <<>> /\ j <= lastCell THEN pos
        ELSE IF col_match # <<>> THEN DecValue(col_match) ELSE 0

\* row_num: a kicker id is kept, "R-<n>" gives the text after the hyphen
RowNum(rid) == IF StartsWith(rid, <<"K">>) THEN rid ELSE SplitDash1(rid)

\* the kickboard lookahead over rows i, i+1, i+2
RECURSIVE KickLookahead(_, _, _, _, _)
KickLookahead(rows, k, stop, rowCol, rid) ==
    IF k >= stop THEN rid
    ELSE IF k < Len(rows) /\ Len(RowAt(rows, k)) > rowCol
            /\ Cell(RowAt(rows, k), rowCol) # <<>>
            /\ StartsWith(Strip(Cell(RowAt(rows, k), rowCol)), <<"K", "-">>)
         THEN ReplaceKDash(Strip(Cell(RowAt(rows, k), rowCol)))
         ELSE KickLookahead(rows, k + 1, stop, rowCol, rid)

(***************************************************************************)
(* The state.  row_id = <<>> stands for None: the code only tests row_id   *)
(* for truth and never assigns it the empty text.                          *)
(***************************************************************************)
VARIABLES
    mainline,               \* rows of the Main Line CSV
    aux,                    \* rows of the Aux CSV
    pc,                     \* the place of control
    i,                      \* index of the row being scanned
    j,                      \* index of the data cell being scanned
    row_id,
    in_kickboard_section,
    hold_data,
    angle_data,             \* the rendered angle_data array
    hold_numbers,           \* the rendered hold_numbers array
    writes                  \* history: the stores into hold_data, in order

vars == <<mainline, aux, pc, i, j, row_id, in_kickboard_section, hold_data,
          angle_data, hold_numbers, writes>>

\* the rows a scan passes over: not row or len(row) < minLen
SkippedEmpty(row, minLen) == Len(row) = 0

Skipped(row, minLen) == Len(row) = 0 \/ Len(row) < minLen

\* what the row step decides for row i of a scan: the scanner state after
\* it and the inner loop, if any, that follows
RowStep(rows, minLen, rowCol) ==
    LET row == RowAt(rows, i)
        grid_type == IF Cell(row, 0) # <<>> THEN Strip(Cell(row, 0)) ELSE <<>>
        kb == in_kickboard_section \/ grid_type = KickboardBelow
        rid == RowIdAfter(row, row_id, rowCol)
        same == [rid |-> row_id, kb |-> in_kickboard_section, to |-> "row"]
    IN  IF Skipped(row, minLen) THEN same
        ELSE IF grid_type = HoldMarker /\ rid # <<>> /\ HasNextRow(rows, i)
        THEN [rid |-> rid, kb |-> kb,
              to |-> IF NextIsAngle(rows, i) THEN "cell" ELSE "row"]
        ELSE IF kb /\ grid_type = HoldMarker /\ HasNextRow(rows, i)
        THEN IF NextIsAngle(rows, i)
             THEN LET found == KickLookahead(rows, i, i + 3, rowCol, rid)
                  IN  [rid |-> found, kb |-> kb,
                       to |-> IF found # <<>> /\ StartsWith(found, <<"K">>)
                              THEN "kick_cell" ELSE "row"]
             ELSE [rid |-> rid, kb |-> kb, to |-> "row"]
        ELSE [rid |-> rid, kb |-> kb, to |-> "row"]

\* one data cell j of a regular header pair at row i, up to the store: hit
\* is FALSE where the code passes the cell over
RegularCell(rows, lastCell, pos) ==
    LET hold_number_row == RowAt(rows, i)
        angle_row == RowAt(rows, i + 1)
        angle_text == Strip(Cell(angle_row, j))
        hold_number == IF j < Len(hold_number_row)
                       THEN Strip(Cell(hold_number_row, j)) ELSE <<>>
        angle_match == DigitRun(angle_text)
        col_num == ColNum(rows, i, j, lastCell, pos)
    IN  IF j < Len(angle_row) /\ angle_text # <<>> /\ angle_match # <<>>
           /\ col_num # 0
        THEN [hit |-> TRUE, col |-> col_num, row |-> RowNum(row_id),
              angle |-> DecValue(angle_match), hold_number |-> hold_number]
        ELSE [hit |-> FALSE, col |-> 0, row |-> <<>>, angle |-> 0,
              hold_number |-> <<>>]

\* one data cell j of a kickboard header pair at row i, up to the store
KickCell(rows, pos) ==
    LET hold_number_row == RowAt(rows, i)
        angle_row == RowAt(rows, i + 1)
        angle_match == DigitRun(Strip(Cell(angle_row, j)))
    IN  IF j < Len(angle_row) /\ j < Len(hold_number_row)
           /\ angle_match # <<>>
        THEN [hit |-> TRUE, col |-> pos, row |-> row_id,
              angle |-> DecValue(angle_match),
              hold_number |-> Strip(Cell(hold_number_row, j))]
        ELSE [hit |-> FALSE, col |-> 0, row |-> <<>>, angle |-> 0,
              hold_number |-> <<>>]

\* the store of the Main Line scan: the whole entry is assigned
MainlineStore(hd, c, default) ==
    SetEntry(hd, c.col,
             [row |-> c.row, angles |-> <<c.angle, 0>>,
              hold_number |-> IF c.hold_number # <<>> THEN c.hold_number
                              ELSE default])

AuxStoreWhole(hd, c, default) ==
    SetEntry(hd, c.col,
             [row |-> c.row, angles |-> <<0, c.angle>>,
              hold_number |-> IF HasKey(hd, c.col, c.row)
                              THEN Entry(hd, c.col, c.row).hold_number
                              ELSE IF c.hold_number # <<>> THEN c.hold_number
                              ELSE default])

AuxStoreRelabel(hd, c, default) ==
    SetEntry(hd, c.col,
             [row |-> c.row,
              angles |-> IF HasKey(hd, c.col, c.row)
                         THEN <<Entry(hd, c.col, c.row).angles[1], c.angle>>
                         ELSE <<0, c.angle>>,
              hold_number |-> IF c.hold_number # <<>> THEN c.hold_number
                              ELSE default])

AuxStoreSlot0(hd, c, default) ==
    IF HasKey(hd, c.col, c.row)
    THEN SetEntry(hd, c.col,
                  [Entry(hd, c.col, c.row) EXCEPT !.angles[1] = c.angle])
    ELSE SetEntry(hd, c.col,
                  [row |-> c.row, angles |-> <<c.angle, 0>>,
                   hold_number |-> IF c.hold_number # <<>> THEN c.hold_number
                                   ELSE default])

\* the store of the Aux scan: an existing entry only gets angles[1]
AuxStore(hd, c, default) ==
    IF HasKey(hd, c.col, c.row)
    THEN SetEntry(hd, c.col,
                  [Entry(hd, c.col, c.row) EXCEPT !.angles[2] = c.angle])
    ELSE SetEntry(hd, c.col,
                  [row |-> c.row, angles |-> <<0, c.angle>>,
                   hold_number |-> IF c.hold_number # <<>> THEN c.hold_number
                                   ELSE default])

\* the history record of a store
Written(src, kick, c) ==
    [src |-> src, kick |-> kick, kb |-> in_kickboard_section, i |-> i,
     j |-> j, col |-> c.col, row |-> c.row, angle |-> c.angle,
     hold_number |-> c.hold_number,
     existed |-> HasKey(hold_data, c.col, c.row)]

\* the end of the body of a row loop
ToRowStep(s, cellPc, kickPc) ==
    /\ row_id' = s.rid
    /\ in_kickboard_section' = s.kb
    /\ IF s.to = "row"
       THEN /\ i' = i + 1
            /\ UNCHANGED <<pc, j>>
       ELSE /\ pc' = (IF s.to = "cell" THEN cellPc ELSE kickPc)
            /\ j' = 1
            /\ UNCHANGED i

\* the end of the body of a cell loop
ToNextCell(lastCell, rowPc) ==
    IF j = lastCell
    THEN /\ pc' = rowPc
         /\ i' = i + 1
         /\ j' = 0
    ELSE /\ j' = j + 1
         /\ UNCHANGED <<pc, i>>

(***************************************************************************)
(* The Main Line (horizontal) scan.                                        *)
(***************************************************************************)
MainlineRow ==
    /\ pc = "mainline_row"
    /\ i < Len(mainline)
    /\ ToRowStep(RowStep(mainline, MainlineMinLen, MainlineRowCol),
                 "mainline_cell", "mainline_kick_cell")
    /\ UNCHANGED <<mainline, aux, hold_data, angle_data, hold_numbers, writes>>

MainlineCell ==
    /\ pc = "mainline_cell"
    /\ LET c == RegularCell(mainline, MainlineLastCell, MainlinePosCol(j))
       IN  IF c.hit
           THEN /\ hold_data' = MainlineStore(hold_data, c,
                                              SynthLabel(c.col, c.row))
                /\ writes' = Append(writes, Written("h", FALSE, c))
           ELSE UNCHANGED <<hold_data, writes>>
    /\ ToNextCell(MainlineLastCell, "mainline_row")
    /\ UNCHANGED <<mainline, aux, row_id, in_kickboard_section, angle_data,
                   hold_numbers>>

MainlineKickCell ==
    /\ pc = "mainline_kick_cell"
    /\ LET c == KickCell(mainline, MainlinePosCol(j))
       IN  IF c.hit
           THEN /\ hold_data' = MainlineStore(hold_data, c, row_id)
                /\ writes' = Append(writes, Written("h", TRUE, c))
           ELSE UNCHANGED <<hold_data, writes>>
    /\ ToNextCell(MainlineLastCell, "mainline_row")
    /\ UNCHANGED <<mainline, aux, row_id, in_kickboard_section, angle_data,
                   hold_numbers>>

\* the Main Line loop is over: the Aux scan starts with a fresh scanner
MainlineDone ==
    /\ pc = "mainline_row"
    /\ i >= Len(mainline)
    /\ pc' = "aux_row"
    /\ i' = 0
    /\ j' = 0
    /\ row_id' = <<>>
    /\ in_kickboard_section' = FALSE
    /\ UNCHANGED <<mainline, aux, hold_data, angle_data, hold_numbers, writes>>

(***************************************************************************)
(* The Aux (vertical) scan.                                                *)
(***************************************************************************)
AuxRow ==
    /\ pc = "aux_row"
    /\ i < Len(aux)
    /\ ToRowStep(RowStep(aux, AuxMinLen, AuxRowCol),
                 "aux_cell", "aux_kick_cell")
    /\ UNCHANGED <<mainline, aux, hold_data, angle_data, hold_numbers, writes>>

AuxCell ==
    /\ pc = "aux_cell"
    /\ LET c == RegularCell(aux, AuxLastCell, AuxPosCol(j))
       IN  IF c.hit
           THEN /\ hold_data' = AuxStore(hold_data, c, SynthLabel(c.col, c.row))
                /\ writes' = Append(writes, Written("v", FALSE, c))
           ELSE UNCHANGED <<hold_data, writes>>
    /\ ToNextCell(AuxLastCell, "aux_row")
    /\ UNCHANGED <<mainline, aux, row_id, in_kickboard_section, angle_data,
                   hold_numbers>>

AuxKickCell ==
    /\ pc = "aux_kick_cell"
    /\ LET c == KickCell(aux, AuxPosCol(j))
       IN  IF c.hit
           THEN /\ hold_data' = AuxStore(hold_data, c, row_id)
                /\ writes' = Append(writes, Written("v", TRUE, c))
           ELSE UNCHANGED <<hold_data, writes>>
    /\ ToNextCell(AuxLastCell, "aux_row")
    /\ UNCHANGED <<mainline, aux, row_id, in_kickboard_section, angle_data,
                   hold_numbers>>

(***************************************************************************)
(* The default filler, run when the Aux loop is over.                      *)
(***************************************************************************)
RECURSIVE FillFromAlways(_, _, _, _)
FillFromAlways(hd, col, row, angles) ==
    IF col >= KickerColStop THEN hd
    ELSE FillFromAlways(SetEntry(hd, col, [row |-> row, angles |-> angles,
                                           hold_number |-> row]),
                        col + 2, row, angles)

\* for col in range(col, 28, 2): add the kicker row where it is missing
RECURSIVE FillFrom(_, _, _, _)
FillFrom(hd, col, row, angles) ==
    IF col >= KickerColStop THEN hd
    ELSE FillFrom(IF HasKey(hd, col, row) THEN hd
                  ELSE SetEntry(hd, col, [row |-> row, angles |-> angles,
                                          hold_number |-> row]),
                  col + 2, row, angles)

FillKickers ==
    /\ pc = "aux_row"
    /\ i >= Len(aux)
    /\ hold_data' = FillFrom(FillFrom(hold_data, 2, K1, <<180, 0>>),
                             1, K2, <<0, 90>>)
    /\ pc' = "generate"
    /\ UNCHANGED <<mainline, aux, i, j, row_id, in_kickboard_section,
                   angle_data, hold_numbers, writes>>

(***************************************************************************)
(* generate_openscad_code: the two arrays, as sequences of <<key, value>>. *)
(***************************************************************************)
row_sort_key_KickersFirst(row) ==
    IF row \in {K1, K2} THEN [rank |-> 0, num |-> 0, text |-> row]
    ELSE IF PyInt(row).ok THEN [rank |-> 1, num |-> PyInt(row).val, text |-> <<>>]
    ELSE [rank |-> 3, num |-> 0, text |-> row]

\* the sort key: rank 1 compares num, ranks 2 and 3 compare text
row_sort_key(row) ==
    IF row \in {K1, K2} THEN [rank |-> 2, num |-> 0, text |-> row]
    ELSE IF PyInt(row).ok THEN [rank |-> 1, num |-> PyInt(row).val, text |-> <<>>]
    ELSE [rank |-> 3, num |-> 0, text |-> row]

\* a < b for two sort keys (tuple comparison)
KeyLess(a, b) ==
    \/ a.rank < b.rank
    \/ /\ a.rank = b.rank
       /\ IF a.rank = 1 THEN a.num < b.num ELSE StrLess(a.text, b.text)

\* x put into the sorted sequence srt behind everything not greater than it
RECURSIVE InsertRow(_, _)
InsertRow(srt, x) ==
    IF srt = <<>> THEN <<x>>
    ELSE IF KeyLess(row_sort_key(x), row_sort_key(Head(srt)))
         THEN <<x>> \o srt
         ELSE <<Head(srt)>> \o InsertRow(Tail(srt), x)

\* sorted(rows, key=row_sort_key): stable, equal keys keep dict order
RECURSIVE SortedRows(_)
SortedRows(rows) ==
    IF rows = <<>> THEN <<>>
    ELSE InsertRow(SortedRows(SubSeq(rows, 1, Len(rows) - 1)), rows[Len(rows)])

\* sorted(hold_data.keys())
RECURSIVE SortedCols(_)
SortedCols(S) ==
    IF S = {} THEN <<>>
    ELSE LET m == CHOOSE x \in S : \A y \in S : x <= y
         IN  <<m>> \o SortedCols(S \ {m})

\* dict.keys() of one column
RowsOf(d) == [n \in 1..Len(d) |-> d[n].row]

\* f"{col}_{row}"
KeyText(col, row) == IntToStr(col) \o <<"_">> \o row

\* the lines one column adds to angle_data
AngleLines(hd, col) ==
    LET rs == SortedRows(RowsOf(hd[col]))
    IN  [n \in 1..Len(rs) |->
            <<KeyText(col, rs[n]), Entry(hd, col, rs[n]).angles>>]

NumberLinesUnsorted(hd, col) ==
    LET rs == RowsOf(hd[col])
    IN  [n \in 1..Len(rs) |->
            <<KeyText(col, rs[n]), Entry(hd, col, rs[n]).hold_number>>]

\* the lines one column adds to hold_numbers
NumberLines(hd, col) ==
    LET rs == SortedRows(RowsOf(hd[col]))
    IN  [n \in 1..Len(rs) |->
            <<KeyText(col, rs[n]), Entry(hd, col, rs[n]).hold_number>>]

RECURSIVE AngleData(_, _)
AngleData(hd, cols) ==
    IF cols = <<>> THEN <<>>
    ELSE AngleLines(hd, Head(cols)) \o AngleData(hd, Tail(cols))

RECURSIVE HoldNumbers(_, _)
HoldNumbers(hd, cols) ==
    IF cols = <<>> THEN <<>>
    ELSE NumberLines(hd, Head(cols)) \o HoldNumbers(hd, Tail(cols))

generate_openscad_code ==
    /\ pc = "generate"
    /\ angle_data' = AngleData(hold_data, SortedCols(DOMAIN hold_data))
    /\ hold_numbers' = HoldNumbers(hold_data, SortedCols(DOMAIN hold_data))
    /\ pc' = "done"
    /\ UNCHANGED <<mainline, aux, i, j, row_id, in_kickboard_section,
                   hold_data, writes>>

(***************************************************************************)
(* The checked inputs.  Data sits in cells 2 and 3 of a row; the Main Line *)
(* rows are 15 cells wide and the Aux rows 16, so that both have a ROW     *)
(* column.                                                                 *)
(***************************************************************************)
GridRow(width, rowCol, lead, c2, c3, id) ==
    [k \in 1..width |->
        IF k = 1 THEN lead
        ELSE IF k = 3 THEN c2
        ELSE IF k = 4 THEN c3
        ELSE IF k = rowCol + 1 THEN id
        ELSE <<>>]

SeqsUpTo(S, n) == UNION {[1..m -> S] : m \in 0..n}

Degree == "˚"

A180 == <<"1", "8", "0", Degree>>

A90 == <<"9", "0", Degree>>

A45 == <<"4", "5", Degree>>

A270 == <<"2", "7", "0", Degree>>

\* rows a free-form file is made of
Menu(w, rc) ==
    { GridRow(w, rc, HoldMarker, <<"4", "2">>, <<>>, <<"R", "-", "5">>),
      GridRow(w, rc, HoldMarker, <<>>, <<"7">>, <<>>),
      GridRow(w, rc, AngleMarker, A180, <<"x">>, <<>>),
      GridRow(w, rc, AngleMarker, A90, A45, <<"K", "-", "1">>),
      GridRow(w, rc, KickboardBelow, <<>>, <<>>, <<>>),
      GridRow(w, rc, <<>>, <<"C", "-", "8">>, <<>>, <<"R", "-", "1">>),
      GridRow(w, rc, <<" ">>, <<>>, <<"C", "-", "0">>, <<" ", "K", "-", "2">>),
      GridRow(rc - 1, rc, KickboardBelow, A90, <<>>, <<>>),
      <<>> }

\* a file that stores angle a under label lab at column 4, row 5, and, when
\* again is set, once more from a second header pair
MainlineMerge(lab, a, again) ==
    << GridRow(15, 14, HoldMarker, lab, <<>>, <<"R", "-", "5">>),
       GridRow(15, 14, AngleMarker, a, <<>>, <<>>) >>
    \o (IF again
        THEN << GridRow(15, 14, HoldMarker, <<"9">>, <<>>, <<>>),
                GridRow(15, 14, AngleMarker, A90, <<>>, <<>>) >>
        ELSE <<>>)

AuxMerge(lab, a, again) ==
    << GridRow(16, 15, <<>>, <<>>, <<>>, <<>>),
       GridRow(16, 15, <<>>, <<"C", "-", "4">>, <<>>, <<>>),
       GridRow(16, 15, HoldMarker, lab, <<>>, <<"R", "-", "5">>),
       GridRow(16, 15, AngleMarker, a, <<>>, <<>>) >>
    \o (IF again
        THEN << GridRow(16, 15, HoldMarker, <<"9">>, <<>>, <<>>),
                GridRow(16, 15, AngleMarker, A180, <<>>, <<>>) >>
        ELSE <<>>)

MainlineFixed == {<<>>, MainlineMerge(<<"4", "2">>, A180, FALSE)}

AuxFixed == {<<>>, AuxMerge(<<"7">>, A90, FALSE)}

FreeInputs ==
    (SeqsUpTo(Menu(15, 14), MaxRows) \X AuxFixed)
    \cup (MainlineFixed \X SeqsUpTo(Menu(16, 15), MaxRows))

MergeInputs ==
    { <<MainlineMerge(hl, ha, h2), AuxMerge(vl, va, v2)>> :
        hl \in {<<>>, <<"4", "2">>}, ha \in {A180, A45}, h2 \in BOOLEAN,
        vl \in {<<>>, <<"7">>}, va \in {A90, A270}, v2 \in BOOLEAN }

\* a header pair with data in cell 3 under rows that may label the column
Lookback(w, rc, above) ==
    above \o << GridRow(w, rc, HoldMarker, <<>>, <<"4", "2">>, <<"R", "-", "5">>),
                GridRow(w, rc, AngleMarker, <<>>, A180, <<>>) >>

AboveRows(w, rc) ==
    { GridRow(w, rc, <<>>, <<>>, <<>>, <<>>),
      GridRow(w, rc, <<>>, <<>>, <<"C", "-", "1", "2">>, <<>>) }

LookbackInputs ==
    { <<Lookback(15, 14, ab), <<>>>> : ab \in SeqsUpTo(AboveRows(15, 14), MaxAbove) }
    \cup { <<<<>>, Lookback(16, 15, ab)>> : ab \in SeqsUpTo(AboveRows(16, 15), MaxAbove) }

\* a kickboard block: an optional numbered row, the section marker with or
\* without a column label, the header pair, and a row behind it
KickFile(w, rc, numbered, labelled, holdId, angleId, tailId) ==
    << GridRow(w, rc, <<>>, <<>>, <<>>,
               IF numbered THEN <<"R", "-", "1">> ELSE <<>>),
       GridRow(w, rc, KickboardBelow,
               IF labelled THEN <<"C", "-", "8">> ELSE <<>>, <<>>, <<>>),
       GridRow(w, rc, HoldMarker, <<>>, <<"4", "2">>, holdId),
       GridRow(w, rc, AngleMarker, A180, A90, angleId),
       GridRow(w, rc, <<>>, <<>>, <<>>, tailId) >>

KickFiles(w, rc) ==
    { KickFile(w, rc, n, l, h, a, t) :
        n \in BOOLEAN, l \in BOOLEAN, h \in {<<>>, <<"K", "-", "1">>},
        a \in {<<>>, <<"K", "-", "1">>}, t \in {<<>>, <<"K", "-", "2">>} }

KickInputs ==
    (KickFiles(15, 14) \X (AuxFixed \cup {AuxMerge(<<>>, A270, FALSE)}))
    \cup ((MainlineFixed \cup {MainlineMerge(<<>>, A45, FALSE)})
          \X KickFiles(16, 15))

\* a Main Line file of one header pair per row id, all storing to column 4
OrderFile(ids) ==
    [n \in 1..(2 * Len(ids)) |->
        IF n % 2 = 1
        THEN GridRow(15, 14, HoldMarker, <<>>, <<>>, ids[(n + 1) \div 2])
        ELSE GridRow(15, 14, AngleMarker, A180, <<>>, <<>>)]

\* numbered rows whose numeric and text orders differ, the kicker rows, and
\* two ids that are neither
OrderIds ==
    { <<"R", "-", "9">>, <<"R", "-", "1", "0">>, <<"R", "-", "0", "7">>,
      <<"K", "-", "2">>, <<"K", "-", "1">>, <<"K", "-", "3">>,
      <<"R", "-", "x">> }

\* rows 3, 1, K1, K2, 2 stored in this order
OrderExample ==
    << <<"R", "-", "3">>, <<"R", "-", "1">>, <<"K", "-", "1">>,
       <<"K", "-", "2">>, <<"R", "-", "2">> >>

OrderInputs ==
    { <<OrderFile(ids), <<>>>> :
        ids \in SeqsUpTo(OrderIds, MaxPairs) \cup {OrderExample} }

Inputs ==
    FreeInputs \cup MergeInputs \cup LookbackInputs \cup KickInputs
    \cup OrderInputs

(***************************************************************************)
(* The specification.                                                      *)
(***************************************************************************)
Init ==
    /\ \E inp \in Inputs : mainline = inp[1] /\ aux = inp[2]
    /\ pc = "mainline_row"
    /\ i = 0
    /\ j = 0
    /\ row_id = <<>>
    /\ in_kickboard_section = FALSE
    /\ hold_data = <<>>
    /\ angle_data = <<>>
    /\ hold_numbers = <<>>
    /\ writes = <<>>

Next ==
    \/ MainlineRow
    \/ MainlineCell
    \/ MainlineKickCell
    \/ MainlineDone
    \/ AuxRow
    \/ AuxCell
    \/ AuxKickCell
    \/ FillKickers
    \/ generate_openscad_code

Spec == Init /\ [][Next]_vars

(***************************************************************************)
(* Vocabulary of the properties.                                           *)
(***************************************************************************)
\* parse_csv_files has returned its table
Returned == pc \in {"generate", "done"}

FileOf(src) == IF src = "h" THEN mainline ELSE aux

RowColOf(src) == IF src = "h" THEN 14 ELSE 15

\* the stores a scan made to a key, as indices into the history
StoresTo(src, col, row) ==
    {n \in 1..Len(writes) :
        writes[n].src = src /\ writes[n].col = col /\ writes[n].row = row}

Highest(S) == CHOOSE x \in S : \A y \in S : y <= x

Lowest(S) == CHOOSE x \in S : \A y \in S : x <= y

\* start + (j-1)*step with (2, 2) for the horizontal source and (1, 2) for
\* the vertical source
PositionalColumn(src, jj) == (IF src = "h" THEN 2 ELSE 1) + (jj - 1) * 2

\* the nearest "C-<n>" at cell jj among rows ii-1, ..., ii-4, row 0 included
LabelAbove(rows, ii, jj) == ColName(rows, jj, ii - 1, Max(0, ii - 4) - 1)

\* "C<column>_R<row>"
DefaultLabel(col, row) == <<"C">> \o IntToStr(col) \o <<"_", "R">> \o row

(***************************************************************************)
(* C1  Merge correctness: when parse_csv_files has returned, every key     *)
(* that both scans stored to holds the angle of the horizontal scan's last *)
(* store in slot 0 and the angle of the vertical scan's last store in      *)
(* slot 1.                                                                 *)
(***************************************************************************)
C1_MergeCorrectness ==
    Returned =>
        \A k \in Keys(hold_data) :
            LET hs == StoresTo("h", k[1], k[2])
                vs == StoresTo("v", k[1], k[2])
            IN  (hs # {} /\ vs # {}) =>
                    Entry(hold_data, k[1], k[2]).angles
                        = <<writes[Highest(hs)].angle, writes[Highest(vs)].angle>>

\* column 4, row 5: 180 from the horizontal source, 90 from the vertical one
C1_Witness ==
    /\ pc = "done"
    /\ HasKey(hold_data, 4, <<"5">>)
    /\ StoresTo("h", 4, <<"5">>) # {}
    /\ StoresTo("v", 4, <<"5">>) # {}
    /\ writes[Highest(StoresTo("h", 4, <<"5">>))].angle = 180
    /\ writes[Highest(StoresTo("v", 4, <<"5">>))].angle = 90
    /\ Entry(hold_data, 4, <<"5">>).angles = <<180, 90>>

(***************************************************************************)
(* C2  Default-fill completeness: in the returned table every even column  *)
(* 2..26 has a K1 entry and every odd column 1..27 a K2 entry, with angles *)
(* (180,0) resp. (0,90) where no scan stored to that key; and the filler   *)
(* step leaves every entry that existed before it as it was.               *)
(***************************************************************************)
C2_FillState ==
    Returned =>
        /\ \A n \in 1..13 :
              /\ HasKey(hold_data, 2 * n, K1)
              /\ (StoresTo("h", 2 * n, K1) \cup StoresTo("v", 2 * n, K1) = {})
                    => Entry(hold_data, 2 * n, K1).angles = <<180, 0>>
        /\ \A n \in 1..14 :
              /\ HasKey(hold_data, 2 * n - 1, K2)
              /\ (StoresTo("h", 2 * n - 1, K2) \cup StoresTo("v", 2 * n - 1, K2) = {})
                    => Entry(hold_data, 2 * n - 1, K2).angles = <<0, 90>>

C2_FillFrame ==
    (pc = "aux_row" /\ pc' = "generate") =>
        \A k \in Keys(hold_data) :
            /\ HasKey(hold_data', k[1], k[2])
            /\ Entry(hold_data', k[1], k[2]) = Entry(hold_data, k[1], k[2])

C2_DefaultFill == [](C2_FillState) /\ [][C2_FillFrame]_vars

\* a scan stored 90 at column 6 / K1, which the filler kept, and column 2
\* got the default
C2_Witness ==
    /\ pc = "done"
    /\ StoresTo("h", 6, K1) # {}
    /\ Entry(hold_data, 6, K1).angles = <<90, 0>>
    /\ StoresTo("h", 2, K1) \cup StoresTo("v", 2, K1) = {}
    /\ Entry(hold_data, 2, K1).angles = <<180, 0>>
    /\ Entry(hold_data, 27, K2).angles = <<0, 90>>

(***************************************************************************)
(* C3  Bijective key sets: the keys of angle_data and of hold_numbers are  *)
(* the same sequence, every (column, row) of the table has its key at      *)
(* exactly one place of it, and no key stands at two places.               *)
(***************************************************************************)
C3_BijectiveKeys ==
    pc = "done" =>
        /\ Len(angle_data) = Len(hold_numbers)
        /\ \A n \in 1..Len(angle_data) : angle_data[n][1] = hold_numbers[n][1]
        /\ \A m, n \in 1..Len(angle_data) :
              angle_data[m][1] = angle_data[n][1] => m = n
        /\ \A m, n \in 1..Len(hold_numbers) :
              hold_numbers[m][1] = hold_numbers[n][1] => m = n
        /\ Len(angle_data) = Cardinality(Keys(hold_data))
        /\ \A k \in Keys(hold_data) :
              \E n \in 1..Len(angle_data) :
                  angle_data[n][1] = KeyText(k[1], k[2])

\* a column whose dict order (K1 first, then row 5) is not the emitted order
C3_Witness ==
    /\ pc = "done"
    /\ Len(hold_data[4]) = 2
    /\ hold_data[4][1].row = K1
    /\ hold_data[4][2].row = <<"5">>
    /\ \E n \in 1..Len(angle_data) :
          /\ angle_data[n][1] = <<"4", "_", "5">>
          /\ angle_data[n + 1][1] = <<"4", "_", "K", "1">>

(***************************************************************************)
(* C4  Column resolution by label: every store of a regular header pair at *)
(* row i, cell j, for which one of the rows i-1, ..., i-4 (row 0 included) *)
(* holds "C-<n>" at cell j, goes to the column n of the nearest such row.  *)
(***************************************************************************)
C4_LabelWins ==
    \A n \in 1..Len(writes) :
        LET w == writes[n]
            lab == LabelAbove(FileOf(w.src), w.i, w.j)
        IN  (~w.kick /\ lab # <<>>) => w.col = DecValue(ColMatch(lab))

(***************************************************************************)
(* C5  Positional column fallback: every store of a header pair at row i,  *)
(* cell j, with no "C-<n>" at cell j in the 4 rows above, goes to column   *)
(* 2 + (j-1)*2 (even, 2..26) in the horizontal source and 1 + (j-1)*2      *)
(* (odd, 1..27) in the vertical source.                                    *)
(***************************************************************************)
C5_PositionalFallback ==
    \A n \in 1..Len(writes) :
        LET w == writes[n]
        IN  LabelAbove(FileOf(w.src), w.i, w.j) = <<>> =>
                /\ w.col = PositionalColumn(w.src, w.j)
                /\ w.src = "h" => (w.j \in 1..13 /\ w.col % 2 = 0 /\ w.col \in 2..26)
                /\ w.src = "v" => (w.j \in 1..14 /\ w.col % 2 = 1 /\ w.col \in 1..27)

\* cell 3 of a horizontal header pair with unlabelled rows above: column 6
C5_Witness ==
    \E n \in 1..Len(writes) :
        /\ writes[n].src = "h"
        /\ writes[n].j = 3
        /\ writes[n].i >= 4
        /\ LabelAbove(mainline, writes[n].i, 3) = <<>>
        /\ writes[n].col = 6
        /\ HasKey(hold_data, 6, <<"5">>)

(***************************************************************************)
(* C6  First writer's label wins.  As claimed: no step of either scan or   *)
(* of the filler changes the hold_number of an entry that exists.          *)
(***************************************************************************)
LabelKept(k) ==
    /\ HasKey(hold_data', k[1], k[2])
    /\ Entry(hold_data', k[1], k[2]).hold_number
          = Entry(hold_data, k[1], k[2]).hold_number

C6_FirstLabelWins == [][\A k \in Keys(hold_data) : LabelKept(k)]_vars

Scanned(k) == StoresTo("h", k[1], k[2]) \cup StoresTo("v", k[1], k[2]) # {}

\* the store that decides an entry's hold_number: the horizontal scan's last
\* store to the key or, without one, the vertical scan's first
Deciding(k) ==
    IF StoresTo("h", k[1], k[2]) # {}
    THEN writes[Highest(StoresTo("h", k[1], k[2]))]
    ELSE writes[Lowest(StoresTo("v", k[1], k[2]))]

C6_VerticalFrame ==
    (pc \notin {"mainline_cell", "mainline_kick_cell"})
        => \A k \in Keys(hold_data) : LabelKept(k)

C6_DecidingLabel ==
    Returned =>
        \A k \in Keys(hold_data) :
            (Scanned(k) /\ Deciding(k).hold_number # <<>>) =>
                Entry(hold_data, k[1], k[2]).hold_number = Deciding(k).hold_number

\* C6 as amended: no store of the vertical scan and no filler step changes
\* the hold_number of an entry that exists; a later store of the horizontal
\* scan assigns the whole entry, so the returned label is the one of the
\* horizontal scan's last store to the key or, without one, of the vertical
\* scan's first.
C6_VerticalKeepsLabel == [][C6_VerticalFrame]_vars /\ [](C6_DecidingLabel)

\* the vertical scan stored to an entry the horizontal scan had labelled
\* "42", offering the label "7", and the entry is still labelled "42"
C6_Witness ==
    \E n \in 1..Len(writes) :
        /\ writes[n].src = "v"
        /\ writes[n].existed
        /\ writes[n].hold_number = <<"7">>
        /\ StoresTo("h", writes[n].col, writes[n].row) # {}
        /\ Entry(hold_data, writes[n].col, writes[n].row).hold_number = <<"4", "2">>
        /\ Entry(hold_data, writes[n].col, writes[n].row).angles[2] = writes[n].angle

(***************************************************************************)
(* C7  Synthesized hold-number default.  An entry no scan stored to comes  *)
(* from the filler.  As claimed: every returned entry whose deciding store *)
(* had an empty label, and every filler entry, is labelled                 *)
(* "C<column>_R<row>".                                                     *)
(***************************************************************************)
Unlabelled(k) == Scanned(k) => Deciding(k).hold_number = <<>>

C7_SynthesizedDefault ==
    Returned =>
        \A k \in Keys(hold_data) :
            Unlabelled(k) =>
                Entry(hold_data, k[1], k[2]).hold_number = DefaultLabel(k[1], k[2])

\* C7 as amended: such an entry is labelled "C<column>_R<row>" when a
\* regular header pair decided it, and with its bare row identifier when a
\* kickboard-branch header pair or the filler did.
C7_DefaultByBranch ==
    Returned =>
        \A k \in Keys(hold_data) :
            Unlabelled(k) =>
                Entry(hold_data, k[1], k[2]).hold_number
                    = IF Scanned(k) /\ ~Deciding(k).kick
                      THEN DefaultLabel(k[1], k[2])
                      ELSE k[2]

\* one run with all three kinds: an unlabelled regular store at column 4,
\* row 5, an unlabelled kickboard-branch store and a filler entry
C7_Witness ==
    /\ pc = "done"
    /\ \E k \in Keys(hold_data) :
          /\ Scanned(k) /\ Unlabelled(k) /\ ~Deciding(k).kick
          /\ k[2] = <<"5">>
          /\ Entry(hold_data, k[1], k[2]).hold_number
                = <<"C">> \o IntToStr(k[1]) \o <<"_", "R", "5">>
    /\ \E k \in Keys(hold_data) :
          /\ Scanned(k) /\ Unlabelled(k) /\ Deciding(k).kick
          /\ Entry(hold_data, k[1], k[2]).hold_number = K1
    /\ ~Scanned(<<27, K2>>)
    /\ Entry(hold_data, 27, K2).hold_number = K2

(***************************************************************************)
(* C8  Skipped rows.  As claimed: the step over a row that is shorter than *)
(* the minimum width, or whose leading cell is empty, changes neither      *)
(* row_id nor the kickboard flag nor the table, and starts no cell loop.   *)
(***************************************************************************)
AtRow(src) ==
    /\ pc = (IF src = "h" THEN "mainline_row" ELSE "aux_row")
    /\ i < Len(FileOf(src))

ShortRow(src) == Len(RowAt(FileOf(src), i)) < (IF src = "h" THEN 14 ELSE 15)

EmptyLead(src) ==
    /\ ~ShortRow(src)
    /\ Strip(Cell(RowAt(FileOf(src), i), 0)) = <<>>

ScannerUntouched ==
    /\ row_id' = row_id
    /\ in_kickboard_section' = in_kickboard_section
    /\ hold_data' = hold_data
    /\ pc' = pc

C8_SkippedRows ==
    [][\A src \in {"h", "v"} :
          (AtRow(src) /\ (ShortRow(src) \/ EmptyLead(src))) => ScannerUntouched]_vars

\* what the ROW column of row i may turn row_id into
RowIdFromCell(src) ==
    LET row == RowAt(FileOf(src), i)
        id == Strip(Cell(row, RowColOf(src)))
    IN  /\ Len(row) > RowColOf(src)
        /\ \/ StartsWith(id, <<"R", "-">>) /\ row_id' = id
           \/ StartsWith(id, <<"K", "-">>) /\ row_id' = ReplaceKDash(id)

\* C8 as amended: a row shorter than the minimum width changes none of
\* them; a row of full width whose leading cell is empty changes neither
\* the kickboard flag nor the table and starts no cell loop, but its ROW
\* column still sets row_id when it starts with "R-" or "K-".
C8_SkippedRowsAmended ==
    [][\A src \in {"h", "v"} :
          /\ (AtRow(src) /\ ShortRow(src)) => ScannerUntouched
          /\ (AtRow(src) /\ EmptyLead(src)) =>
                /\ in_kickboard_section' = in_kickboard_section
                /\ hold_data' = hold_data
                /\ pc' = pc
                /\ row_id' = row_id \/ RowIdFromCell(src)]_vars

\* the horizontal scan has passed a 13-cell "Kickboard Below" row, which
\* left the flag down, and then a row with an empty leading cell and "R-1"
\* in the ROW column, which set row_id
C8_Witness ==
    /\ pc = "mainline_row"
    /\ i = 2
    /\ Len(RowAt(mainline, 0)) = 13
    /\ Cell(RowAt(mainline, 0), 0) = KickboardBelow
    /\ Len(RowAt(mainline, 1)) = 15
    /\ Cell(RowAt(mainline, 1), 0) = <<>>
    /\ Cell(RowAt(mainline, 1), 14) = <<"R", "-", "1">>
    /\ ~in_kickboard_section
    /\ row_id = <<"R", "-", "1">>
    /\ hold_data = <<>>

(***************************************************************************)
(* C9  Kickboard lookahead: every store of a header pair at row i made     *)
(* with the kickboard flag up, where one of the rows i, i+1, i+2 has       *)
(* "K-<n>" in the ROW column, goes to the row "K<n>" of the first such     *)
(* row, never to a numbered row set earlier.                               *)
(***************************************************************************)
C9_KickboardLookahead ==
    \A n \in 1..Len(writes) :
        LET w == writes[n]
            near == KickLookahead(FileOf(w.src), w.i, w.i + 3,
                                  RowColOf(w.src), <<>>)
        IN  (w.kb /\ near # <<>>) => w.row = near

(***************************************************************************)
(* C10  Kickboard header pairs are resolved positionally: every store made *)
(* with the kickboard flag up goes to column start + (j-1)*step of its     *)
(* source, whatever "C-<n>" stands in the rows above.                      *)
(***************************************************************************)
C10_KickboardPositional ==
    \A n \in 1..Len(writes) :
        writes[n].kb => writes[n].col = PositionalColumn(writes[n].src, writes[n].j)

(***************************************************************************)
(* C11  Serialization order: in angle_data and in hold_numbers the lines   *)
(* of a lower column come before those of a higher one, and within a       *)
(* column the numeric rows come first in ascending numeric order, then K1  *)
(* before K2, then every other row in the order of its text.  A row is     *)
(* numeric when int() reads it.                                            *)
(***************************************************************************)
\* the keys of the table in the order of their lines in an emitted array,
\* each with what the order looks at: 1 for a numeric row, 2 for a kicker
\* row, 3 for any other, and the number of a numeric row
EmittedKeys(arr) ==
    SubSeq([n \in 1..Len(arr) |->
               LET k == CHOOSE x \in Keys(hold_data) :
                            KeyText(x[1], x[2]) = arr[n][1]
               IN  [col |-> k[1], row |-> k[2],
                    class |-> IF k[2] \in {K1, K2} THEN 2
                              ELSE IF PyInt(k[2]).ok THEN 1 ELSE 3,
                    num |-> PyInt(k[2]).val]],
           1, Len(arr))

\* row a is to be emitted before row b of the same column
RowBefore(a, b) ==
    \/ a.class < b.class
    \/ a.class = 1 /\ b.class = 1 /\ a.num < b.num
    \/ a.row = K1 /\ b.row = K2
    \/ a.class = 3 /\ b.class = 3 /\ StrLess(a.row, b.row)

KeyBefore(a, b) == a.col < b.col \/ (a.col = b.col /\ RowBefore(a, b))

InOrder(ks) ==
    /\ \A k \in Keys(hold_data) :
          \E n \in 1..Len(ks) : ks[n].col = k[1] /\ ks[n].row = k[2]
    /\ \A m, n \in 1..Len(ks) : KeyBefore(ks[m], ks[n]) => m < n

C11_SerializationOrder ==
    pc = "done" =>
        /\ InOrder(EmittedKeys(angle_data))
        /\ InOrder(EmittedKeys(hold_numbers))

\* column 4 holds rows 3, 1, K1, K2, 2 in this dict order and its lines read
\* 1, 2, 3, K1, K2, behind column 3 and ahead of column 5
C11_Witness ==
    /\ pc = "done"
    /\ RowsOf(hold_data[4]) = << <<"3">>, <<"1">>, K1, K2, <<"2">> >>
    /\ \E n \in 1..Len(angle_data) :
          /\ angle_data[n][1] = <<"3", "_", "K", "2">>
          /\ angle_data[n + 1][1] = <<"4", "_", "1">>
          /\ angle_data[n + 2][1] = <<"4", "_", "2">>
          /\ angle_data[n + 3][1] = <<"4", "_", "3">>
          /\ angle_data[n + 4][1] = <<"4", "_", "K", "1">>
          /\ angle_data[n + 5][1] = <<"4", "_", "K", "2">>
          /\ angle_data[n + 6][1] = <<"5", "_", "K", "2">>
          /\ \A m \in n..(n + 6) : hold_numbers[m][1] = angle_data[m][1]

(***************************************************************************)
(* C12  Orientation slots: a step of the horizontal scan leaves the        *)
(* angle_v of every key as it was (0 for a key it creates), and a step of  *)
(* the vertical scan leaves the angle_h of every key as it was (0 for a    *)
(* key it creates).                                                        *)
(***************************************************************************)
\* slot s of key k before the step, 0 when the key does not exist yet
SlotBefore(k, s) ==
    IF HasKey(hold_data, k[1], k[2])
    THEN Entry(hold_data, k[1], k[2]).angles[s] ELSE 0

C12_SlotFrame ==
    /\ pc \in {"mainline_cell", "mainline_kick_cell"} =>
          \A k \in Keys(hold_data') :
              Entry(hold_data', k[1], k[2]).angles[2] = SlotBefore(k, 2)
    /\ pc \in {"aux_cell", "aux_kick_cell"} =>
          \A k \in Keys(hold_data') :
              Entry(hold_data', k[1], k[2]).angles[1] = SlotBefore(k, 1)

C12_OrientationSlots == [][C12_SlotFrame]_vars

\* the vertical scan has just stored 270 to a key whose angle_h the
\* horizontal scan had set to 45 in its first store and to 90 in its second
C12_Witness ==
    /\ pc = "aux_cell"
    /\ Len(writes) = 3
    /\ writes[1].src = "h" /\ writes[1].angle = 45 /\ ~writes[1].existed
    /\ writes[2].src = "h" /\ writes[2].angle = 90 /\ writes[2].existed
    /\ writes[3].src = "v" /\ writes[3].angle = 270 /\ writes[3].existed
    /\ writes[1].col = writes[3].col /\ writes[1].row = writes[3].row
    /\ writes[2].col = writes[3].col /\ writes[2].row = writes[3].row
    /\ Entry(hold_data, writes[3].col, writes[3].row).angles = <<90, 270>>

=============================================================================
